---- MODULE Spec2Model ----
(***************************************************************************)
(* A model of src/main.py: the bill monitor's pipeline                     *)
(*   fetch_period_page -> extract_bill_links -> (per link) fetch_bill_page *)
(*   -> parse_bill -> build_row -> save_rows_to_csv.                       *)
(*                                                                         *)
(* Strings are sequences of one-character tokens, so that substring tests, *)
(* case folding and URL joining are computed and not assumed.  A Latin     *)
(* letter is its own token ("b", "B").  A Cyrillic letter is the token of  *)
(* its transliteration ("z" for U+0437, "sh" for U+0448, "soft" for the    *)
(* soft sign), upper case in capitals ("Z", "SH").  Body texts are         *)
(* Cyrillic and hrefs are Latin; the only Latin letters inside the keyword *)
(* table (the keyword m&a) are written "lat_m" and "lat_a".                *)
(***************************************************************************)
EXTENDS Integers, Sequences, FiniteSets, TLC

VARIABLES
    pc,       \* position of main (or of the stage a specification runs)
    html,     \* main's local html: the listing page, or None
    limit,    \* main's parameter
    links,    \* main's local links
    idx,      \* position of main's for loop in links (enumerate's i)
    rows,     \* main's local rows
    trace,    \* what the process did to the outside, in order: GETs and sleeps
    csv,      \* the output file bills_output.csv
    console,  \* the lines printed, by kind
    parsed,   \* build_row's argument
    cls,      \* build_row's locals matched, keywords_map, risk
    row       \* build_row's result

vars == <<pc, html, limit, links, idx, rows, trace, csv, console, parsed, cls, row>>

(***************************************************************************)
(* Bounds of the model.                                                    *)
(***************************************************************************)
MaxFragments == 3
MaxAnchors == 3
MaxLimit == 3
MaxRows == 502

(***************************************************************************)
(* Python values.                                                          *)
(***************************************************************************)
PyNone == [type |-> "NoneType"]

\* A str holding a document: empty is the empty string "", which Python
\* treats as false; anchors are the document's <a href> elements in
\* document order, body its text.
PyStr(anchors, body) == [type |-> "str", empty |-> FALSE, anchors |-> anchors, body |-> body]

EmptyStr == [type |-> "str", empty |-> TRUE, anchors |-> <<>>, body |-> <<>>]

TruthyNotNone(v) == v.type = "str"

\* Python's truth value of an Optional[str]: `if not html`.
Truthy(v) == v.type = "str" /\ ~v.empty

Range(s) == {s[i] : i \in DOMAIN s}

Min(a, b) == IF a < b THEN a ELSE b

\* s[:n]
Take(s, n) == SubSeq(s, 1, Min(n, Len(s)))

\* needle in hay
Contains(hay, needle) ==
    \E i \in 1..(Len(hay) - Len(needle) + 1) :
        SubSeq(hay, i, i + Len(needle) - 1) = needle

CasePairs ==
    { <<"A", "a">>, <<"B", "b">>, <<"D", "d">>, <<"E", "e">>, <<"F", "f">>,
      <<"H", "h">>, <<"I", "i">>, <<"J", "j">>, <<"K", "k">>, <<"L", "l">>,
      <<"M", "m">>, <<"N", "n">>, <<"O", "o">>, <<"P", "p">>, <<"R", "r">>,
      <<"S", "s">>, <<"T", "t">>, <<"U", "u">>, <<"V", "v">>, <<"Y", "y">>,
      <<"Z", "z">>, <<"SH", "sh">>, <<"TS", "ts">>, <<"KH", "kh">>,
      <<"YI", "yi">>, <<"YU", "yu">>, <<"SOFT", "soft">>,
      <<"LAT_M", "lat_m">>, <<"LAT_A", "lat_a">> }

LowerMap == [u \in {p[1] : p \in CasePairs} |-> (CHOOSE p \in CasePairs : p[1] = u)[2]]

\* str.lower(), one character
LowerChar(c) == IF c \in DOMAIN LowerMap THEN LowerMap[c] ELSE c

\* str.lower()
Lower(s) == [i \in DOMAIN s |-> LowerChar(s[i])]

\* re.search(alt1|alt2|..., s, re.I) for literal alternatives
SearchIgnoreCase(alts, s) == \E a \in alts : Contains(Lower(s), Lower(a))

(***************************************************************************)
(* The keyword and label tables.                                           *)
(***************************************************************************)
SectorOrder == <<"agrarian", "social", "corporate">>

SECTOR_KEYWORDS ==
    [ agrarian |-> <<
        <<"z","e","m","l">>,
        <<"s","i","l","soft","s","soft","k","o","h","o","s","p","o","d","a","r">>,
        <<"f","e","r","m","e","r">>,
        <<"p","i","d","t","r","y","m","k">>,
        <<"s","u","b","s","y","d">>,
        <<"e","k","s","p","o","r","t">>,
        <<"kh","l","i","b">>,
        <<"z","e","r","n","o">>,
        <<"f","i","t","o","s","a","n","i","t">>,
        <<"f","i","t","o","s","a","n","y","t","a","r">>,
        <<"k","v","o","t">>,
        <<"a","h","r","a","r">>,
        <<"p","a","yi">> >>,
      social |-> <<
        <<"t","r","u","d">>,
        <<"z","a","r","p","l","a","t">>,
        <<"s","t","r","a","kh","o","v">>,
        <<"p","e","n","s">>,
        <<"p","e","n","s","i","j">>,
        <<"p","r","a","ts","i">>,
        <<"o","kh","o","r","o","n">>,
        <<"s","o","ts","i","a","l">>,
        <<"v","n","e","s","k">>,
        <<"sh","t","r","a","f">>,
        <<"v","i","d","p","u","s","t","k">> >>,
      corporate |-> <<
        <<"p","o","d","a","t">>,
        <<"v","a","l","yu","t">>,
        <<"k","o","r","p","o","r","a","t","y","v">>,
        <<"u","p","r","a","v","l">>,
        <<"lat_m","&","lat_a">>,
        <<"z","l","y","t">>,
        <<"p","r","y","d","b">>,
        <<"b","o","r","h">>,
        <<"v","i","j">>,
        <<"l","i","m","i","t">>,
        <<"k","o","n","ts","e","r","n">> >> ]

SECTOR_LABELS ==
    [ agrarian |-> "Agrarnyj", social |-> "Sotsialnyj",
      corporate |-> "Korporatyvnyj", other |-> "Inshyj" ]

\* SECTOR_LABELS.get(s, default)
LabelGet(s, default) == IF s \in DOMAIN SECTOR_LABELS THEN SECTOR_LABELS[s] ELSE default

\* the alternatives of compute_risk_score's regular expression
PenaltyStems ==
    { <<"sh","t","r","a","f">>, <<"sh","t","r","a","f","y">>, <<"s","a","n","k","ts">> }

(***************************************************************************)
(* analyze_text_for_sectors                                                *)
(***************************************************************************)
\* found[sector] after the loops: the sector's keywords that occur in the
\* lower-cased text, in table order
Found(text) ==
    LET low == Lower(text)
    IN  [s \in Range(SectorOrder) |->
            SelectSeq(SECTOR_KEYWORDS[s], LAMBDA kw : Contains(low, Lower(kw)))]

\* [s for s, lst in found.items() if lst]: dict order is insertion order
Matched(found) == SelectSeq(SectorOrder, LAMBDA s : found[s] # <<>>)

\* {s: list(set(found[s])) for s in found}: a list in no specified order,
\* of which only membership and length are ever read: kept as the set
KeywordsMap(found) == [s \in DOMAIN found |-> Range(found[s])]

analyze_text_for_sectors(text) ==
    LET found == Found(text)
    IN  [matched |-> Matched(found), keywords_map |-> KeywordsMap(found)]

(***************************************************************************)
(* compute_risk_score                                                      *)
(***************************************************************************)
RiskCap == 10

RECURSIVE KeywordCount(_, _)
\* for s in matched: score += len(keywords_map.get(s, []))
KeywordCount(matched, keywords_map) ==
    IF matched = <<>> THEN 0
    ELSE (IF Head(matched) \in DOMAIN keywords_map
             THEN Cardinality(keywords_map[Head(matched)]) ELSE 0)
         + KeywordCount(Tail(matched), keywords_map)

PenaltyBonusCaseSensitive(text) == IF \E a \in PenaltyStems : Contains(text, a) THEN 3 ELSE 0

\* if re.search(r'shtraf|shtrafy|sankts', text, re.I): score += 3
PenaltyBonus(text) == IF SearchIgnoreCase(PenaltyStems, text) THEN 3 ELSE 0

RawScore(matched, keywords_map, text) ==
    2 * Len(matched) + KeywordCount(matched, keywords_map) + PenaltyBonus(text)

ClampNone(score) == score

\* if score > 10: score = 10
Clamp(score) == IF score > RiskCap THEN RiskCap ELSE score

compute_risk_score(matched, keywords_map, text) ==
    Clamp(RawScore(matched, keywords_map, text))

(***************************************************************************)
(* URLs and the HTTP fetcher                                               *)
(***************************************************************************)
Scheme == <<"h","t","t","p","s",":","/","/">>

BASE_PORTAL == Scheme \o <<"i","t","d",".","r","a","d","a",".","g","o","v",".","u","a">>

PERIOD_LIST_URL ==
    BASE_PORTAL \o <<"/","b","i","l","l","I","n","f","o","/","B","i","l","l","s","/","p","e","r","i","o","d">>

IsPrefix(p, s) == Len(p) <= Len(s) /\ SubSeq(s, 1, Len(p)) = p

\* urllib.parse.urljoin(base, href) for a base without a path and an href
\* that is an absolute URL, a path from the root, or a relative path with
\* no dot segment (the hrefs the model feeds it)
urljoin(base, href) ==
    IF IsPrefix(Scheme, href) THEN href
    ELSE IF href = <<>> THEN base
    ELSE IF Head(href) = "/" THEN base \o href
    ELSE base \o <<"/">> \o href

\* What the server does with one GET: the request raises (network error,
\* timeout), or a response arrives with a status and a body.
NetError == [kind |-> "exception", status |-> 0, text |-> EmptyStr]

Response(status, text) == [kind |-> "response", status |-> status, text |-> text]

\* resp.raise_for_status() raises: a 4xx or 5xx status
RaisesForStatus(resp) == resp.status >= 400

\* requests.get raised, or raise_for_status did: the except branch
FetchFailed(resp) == resp.kind = "exception" \/ RaisesForStatus(resp)

fetch_period_page_unchecked(resp) == IF resp.kind = "exception" THEN PyNone ELSE resp.text

\* fetch_period_page, given what the server does: resp.text, or None from
\* the except branch
fetch_period_page(resp) == IF FetchFailed(resp) THEN PyNone ELSE resp.text

\* fetch_bill_page, given what the server does
fetch_bill_page(resp) == IF FetchFailed(resp) THEN PyNone ELSE resp.text

\* the error line the except branch prints
FetchPrints(resp, line) == IF FetchFailed(resp) THEN <<line>> ELSE <<>>

(***************************************************************************)
(* extract_bill_links                                                      *)
(***************************************************************************)
HrefPatterns ==
    { <<"B","i","l","l","s","/","D","e","t","a","i","l","s">>,
      <<"B","i","l","l","I","n","f","o","/","D","e","t","a","i","l","s">>,
      <<"b","i","l","l","I","n","f","o","/","B","i","l","l">> }

\* re.search(r'Bills/Details|BillInfo/Details|billInfo/Bill', href, re.I)
\*   or 'bill' in href.lower()
IsBillHref(href) ==
    SearchIgnoreCase(HrefPatterns, href) \/ Contains(Lower(href), <<"b","i","l","l">>)

\* text or 'No title'
TitleOr(text) == IF text = "" THEN "No title" ELSE text

\* the first loop: one (title, absolute url) pair per kept anchor
CandidateLinks(doc) ==
    LET kept == SelectSeq(doc.anchors, LAMBDA a : IsBillHref(a.href))
    IN  [k \in DOMAIN kept |->
            [title |-> TitleOr(kept[k].text), url |-> urljoin(BASE_PORTAL, kept[k].href)]]

RECURSIVE UniqLoop(_, _, _, _, _)
\* the second loop from its k-th iteration: the unseen pair is appended
\* first, the length is tested after
UniqLoop(cands, k, seen, uniq, lim) ==
    IF k > Len(cands) THEN uniq
    ELSE LET fresh == cands[k].url \notin seen
             seen2 == seen \cup {cands[k].url}
             uniq2 == IF fresh THEN Append(uniq, cands[k]) ELSE uniq
         IN  IF Len(uniq2) >= lim THEN uniq2
             ELSE UniqLoop(cands, k + 1, seen2, uniq2, lim)

extract_bill_links(doc, lim) == UniqLoop(CandidateLinks(doc), 1, {}, <<>>, lim)

(***************************************************************************)
(* parse_bill and build_row                                                *)
(***************************************************************************)
FullTextCap == 20000

\* parse_bill: the url and the body text cut to 20000 characters.  The
\* document's body stands for the text parse_bill selects (the longest div,
\* else the whole page); title, published_date and status are not modelled.
parse_bill(doc, url) == [url |-> url, full_text |-> Take(doc.body, FullTextCap)]

SectorMainLast(matched) == LabelGet(IF matched # <<>> THEN matched[Len(matched)] ELSE "other", "Inshyj")

\* sector_main_eng = matched[0] if matched else 'other'
\* sector_main = SECTOR_LABELS.get(sector_main_eng, 'Inshyj')
SectorMain(matched) == LabelGet(IF matched # <<>> THEN matched[1] ELSE "other", "Inshyj")

\* build_row's locals
Classify(p) ==
    LET a == analyze_text_for_sectors(p.full_text)
    IN  [matched |-> a.matched, keywords_map |-> a.keywords_map,
         risk |-> compute_risk_score(a.matched, a.keywords_map, p.full_text)]

\* the row, from build_row's locals: the fields bill_url, matched_sectors
\* (the labels that are joined with ';'), sector_main and risk_score;
\* title, published_date, status, keywords_found and summary are not modelled
RowOf(p, c) ==
    [bill_url |-> p.url,
     matched_sectors |-> [k \in DOMAIN c.matched |-> LabelGet(c.matched[k], c.matched[k])],
     sector_main |-> SectorMain(c.matched),
     risk_score |-> c.risk]

build_row(p) == RowOf(p, Classify(p))

(***************************************************************************)
(* save_rows_to_csv                                                        *)
(***************************************************************************)
Fieldnames ==
    <<"bill_url", "title", "published_date", "status", "matched_sectors",
      "sector_main", "keywords_found", "risk_score", "summary">>

\* open(output, 'w') creates or truncates the file; then the header and one
\* line per row
save_rows_to_csv(file, rs) ==
    [exists |-> TRUE, opens |-> file.opens + 1, header |-> Fieldnames, data |-> rs]

CsvRowCap == 500

MainTruncateNone(rs) == rs

\* rows = rows[:500]
MainTruncate(rs) == Take(rs, CsvRowCap)

(***************************************************************************)
(* The inputs the model draws: body texts, listing pages, detail pages,    *)
(* and what the server answers.                                            *)
(***************************************************************************)
RECURSIVE Concat(_)
Concat(ss) == IF ss = <<>> THEN <<>> ELSE Head(ss) \o Concat(Tail(ss))

\* zeml, Subsyd, pensij, shtraf, SHTRAFY, sankts, podat, a blank, zakon
Fragments ==
    { <<"z","e","m","l">>, <<"S","u","b","s","y","d">>, <<"p","e","n","s","i","j">>,
      <<"sh","t","r","a","f">>, <<"SH","T","R","A","F","Y">>, <<"s","a","n","k","ts">>,
      <<"p","o","d","a","t">>, <<" ">>, <<"z","a","k","o","n">> }

Texts == UNION { {Concat(fs) : fs \in [1..n -> Fragments]} : n \in 0..MaxFragments }

BillPath == <<"/","b","i","l","l","I","n","f","o","/","B","i","l","l","/">>

\* the same bill page as a path from the root, as an absolute URL and as a
\* relative path; another bill page; a page that is no bill; a page of
\* another host whose href matches only through 'bill' in href.lower()
Anchors ==
    { [href |-> BillPath \o <<"1">>, text |-> "Bill 1"],
      [href |-> BASE_PORTAL \o BillPath \o <<"1">>, text |-> ""],
      [href |-> Tail(BillPath) \o <<"1">>, text |-> "Bill 1 again"],
      [href |-> <<"/","B","i","l","l","s","/","D","e","t","a","i","l","s","/","2">>, text |-> "Bill 2"],
      [href |-> <<"/","a","b","o","u","t">>, text |-> "About"],
      [href |-> Scheme \o <<"x",".","o","r","g","/","B","I","L","L","S","/","3">>, text |-> ""] }

ListingDocs == { PyStr(as, <<>>) : as \in UNION { [1..n -> Anchors] : n \in 0..MaxAnchors } }

\* the body of an error response: nothing, or a page with one anchor
ErrorDocs == {EmptyStr} \cup { PyStr(<<a>>, <<>>) : a \in Anchors }

\* the listing pages a run of main is given: those whose hrefs are a path
\* from the root or an absolute URL
MainListingDocs == { d \in ListingDocs : \A a \in Range(d.anchors) : Head(a.href) \in {"/", "h"} }

ListingResponses ==
    {NetError} \cup { Response(500, d) : d \in ErrorDocs }
               \cup { Response(200, d) : d \in {EmptyStr} \cup MainListingDocs }

\* a detail page without a keyword, and one of two sectors with a penalty stem
BillDocs ==
    { PyStr(<<>>, <<"z","a","k","o","n">>),
      PyStr(<<>>, <<"z","e","m","l"," ","sh","t","r","a","f">>) }

BillResponses ==
    {NetError, Response(404, EmptyStr)} \cup { Response(200, d) : d \in {EmptyStr} \cup BillDocs }

(***************************************************************************)
(* The outside: the log of GETs and sleeps, the console, the output file   *)
(***************************************************************************)
GetEvent(url, resp) == [op |-> "get", url |-> url, resp |-> resp]

SleepTenths == 8

PauseNone == <<>>

\* time.sleep(0.8)
Pause == <<[op |-> "sleep", tenths |-> SleepTenths]>>

CsvAbsent == [exists |-> FALSE, opens |-> 0, header |-> <<>>, data |-> <<>>]

\* the file an earlier run left
OldRow ==
    [bill_url |-> BASE_PORTAL \o BillPath \o <<"0">>, matched_sectors |-> <<>>,
     sector_main |-> "Inshyj", risk_score |-> 0]

CsvOld == [exists |-> TRUE, opens |-> 0, header |-> Fieldnames, data |-> <<OldRow>>]

NoParsed == [url |-> <<>>, full_text |-> <<>>]

NoCls == [matched |-> <<>>, keywords_map |-> [s \in Range(SectorOrder) |-> {}], risk |-> 0]

NoRow == [bill_url |-> <<>>, matched_sectors |-> <<>>, sector_main |-> "", risk_score |-> 0]

(***************************************************************************)
(* main                                                                    *)
(***************************************************************************)
Init ==
    /\ pc = "start"
    /\ limit \in 0..MaxLimit
    /\ csv \in {CsvAbsent, CsvOld}
    /\ html = PyNone
    /\ links = <<>>
    /\ idx = 0
    /\ rows = <<>>
    /\ trace = <<>>
    /\ console = <<>>
    /\ parsed = NoParsed
    /\ cls = NoCls
    /\ row = NoRow

\* if not html: ... return
MainAborts(h) == ~Truthy(h)

\* lines 196-204: the listing page is fetched; without it the run ends,
\* with it the links are extracted and the loop starts
MainStart ==
    /\ pc = "start"
    /\ \E resp \in ListingResponses :
        LET h == fetch_period_page(resp)
            out == console \o FetchPrints(resp, "list_error")
        IN  /\ html' = h
            /\ trace' = Append(trace, GetEvent(PERIOD_LIST_URL, resp))
            /\ \/ /\ MainAborts(h)
                  /\ console' = Append(out, "abort")
                  /\ pc' = "done"
                  /\ UNCHANGED <<links, idx>>
               \/ /\ ~MainAborts(h)
                  /\ links' = extract_bill_links(h, limit)
                  /\ console' = Append(out, "found")
                  /\ idx' = 1
                  /\ pc' = "loop"
    /\ UNCHANGED <<limit, rows, csv, parsed, cls, row>>

\* lines 205-217: one iteration of the loop over links
MainBill ==
    /\ pc = "loop"
    /\ idx <= Len(links)
    /\ \E resp \in BillResponses :
        LET link == links[idx]
            bill_html == fetch_bill_page(resp)
            out == Append(console, "progress") \o FetchPrints(resp, "bill_error")
            got == Append(trace, GetEvent(link.url, resp))
        IN  \/ /\ ~Truthy(bill_html)
               /\ console' = out
               /\ trace' = got
               /\ UNCHANGED rows
            \/ /\ Truthy(bill_html)
               /\ rows' = Append(rows, build_row(parse_bill(bill_html, link.url)))
               /\ console' = Append(out, "sector")
               /\ trace' = got \o Pause
    /\ idx' = idx + 1
    /\ UNCHANGED <<pc, html, limit, links, csv, parsed, cls, row>>

SaveAlways(rs) == TRUE

\* if rows:
SaveWanted(rs) == rs # <<>>

\* lines 219-223: after the loop
MainFinish ==
    /\ pc = "loop"
    /\ idx > Len(links)
    /\ \/ /\ SaveWanted(rows)
          /\ rows' = MainTruncate(rows)
          /\ csv' = save_rows_to_csv(csv, MainTruncate(rows))
          /\ console' = Append(console, "saved")
       \/ /\ ~SaveWanted(rows)
          /\ console' = Append(console, "nothing_saved")
          /\ UNCHANGED <<rows, csv>>
    /\ pc' = "done"
    /\ UNCHANGED <<html, limit, links, idx, trace, parsed, cls, row>>

Next == MainStart \/ MainBill \/ MainFinish

Spec == Init /\ [][Next]_vars

(***************************************************************************)
(* extract_bill_links on its own: every listing page and limit of the      *)
(* bounds, and the call.                                                   *)
(***************************************************************************)
InitExtract ==
    /\ pc = "extract"
    /\ html \in ListingDocs
    /\ limit \in 0..MaxLimit
    /\ csv = CsvAbsent
    /\ links = <<>>
    /\ idx = 0
    /\ rows = <<>>
    /\ trace = <<>>
    /\ console = <<>>
    /\ parsed = NoParsed
    /\ cls = NoCls
    /\ row = NoRow

ExtractLinks ==
    /\ pc = "extract"
    /\ links' = extract_bill_links(html, limit)
    /\ pc' = "extracted"
    /\ UNCHANGED <<html, limit, idx, rows, trace, csv, console, parsed, cls, row>>

NextExtract == ExtractLinks

SpecExtract == InitExtract /\ [][NextExtract]_vars

(***************************************************************************)
(* build_row on its own: every body text of the bounds, parsed, and the    *)
(* call.                                                                   *)
(***************************************************************************)
InitClassify ==
    /\ pc = "build_row"
    /\ parsed \in { parse_bill(PyStr(<<>>, t), BASE_PORTAL \o BillPath \o <<"1">>) : t \in Texts }
    /\ cls = NoCls
    /\ row = NoRow
    /\ html = PyNone
    /\ limit = 0
    /\ csv = CsvAbsent
    /\ links = <<>>
    /\ idx = 0
    /\ rows = <<>>
    /\ trace = <<>>
    /\ console = <<>>

BuildRow ==
    /\ pc = "build_row"
    /\ cls' = Classify(parsed)
    /\ row' = build_row(parsed)
    /\ pc' = "built"
    /\ UNCHANGED <<html, limit, links, idx, rows, trace, csv, console, parsed>>

NextClassify == BuildRow

SpecClassify == InitClassify /\ [][NextClassify]_vars

(***************************************************************************)
(* The end of main on its own: main at line 219, after a loop over n links *)
(* whose pages all arrived, for every n up to MaxRows, and the step that   *)
(* saves.                                                                  *)
(***************************************************************************)
BulkHref(k) == BillPath \o <<ToString(k)>>

BulkAnchors(n) == [k \in 1..n |-> [href |-> BulkHref(k), text |-> ""]]

BulkDoc == PyStr(<<>>, <<"z","a","k","o","n">>)

BulkLinks(n) ==
    [k \in 1..n |-> [title |-> TitleOr(""), url |-> urljoin(BASE_PORTAL, BulkHref(k))]]

\* the log of such a run: the listing GET, then a GET and a sleep per link
BulkTrace(n) ==
    [j \in 1..(2 * n + 1) |->
        IF j = 1 THEN GetEvent(PERIOD_LIST_URL, Response(200, PyStr(BulkAnchors(n), <<>>)))
        ELSE IF j % 2 = 0
             THEN GetEvent(urljoin(BASE_PORTAL, BulkHref(j \div 2)), Response(200, BulkDoc))
             ELSE Pause[1]]

BulkConsole(n) ==
    [j \in 1..(2 * n + 1) |->
        IF j = 1 THEN "found" ELSE IF j % 2 = 0 THEN "progress" ELSE "sector"]

\* build_row of each page; the locals of build_row read the body text alone
\* and every page has the same one
BulkRows(n) ==
    LET c == Classify(parse_bill(BulkDoc, <<>>))
    IN  [k \in 1..n |-> RowOf(parse_bill(BulkDoc, urljoin(BASE_PORTAL, BulkHref(k))), c)]

InitCsv ==
    \E n \in 0..MaxRows :
        /\ pc = "loop"
        /\ limit = MaxRows
        /\ csv \in {CsvAbsent, CsvOld}
        /\ html = PyStr(BulkAnchors(n), <<>>)
        /\ links = BulkLinks(n)
        /\ idx = n + 1
        /\ rows = BulkRows(n)
        /\ trace = BulkTrace(n)
        /\ console = BulkConsole(n)
        /\ parsed = NoParsed
        /\ cls = NoCls
        /\ row = NoRow

NextCsv == MainFinish

SpecCsv == InitCsv /\ [][NextCsv]_vars

(***************************************************************************)
(* What the claims read off a state.                                       *)
(***************************************************************************)
\* the GETs after the listing page's: the detail-page requests, in order
DetailGets == IF trace = <<>> THEN <<>> ELSE SelectSeq(Tail(trace), LAMBDA e : e.op = "get")

UrlsOf(gets) == [k \in DOMAIN gets |-> gets[k].url]

NoRepeat(s) == \A i, j \in DOMAIN s : i # j => s[i] # s[j]

\* the server answered the GET with a success status
Succeeded(resp) == resp.kind = "response" /\ resp.status < 400

\* the server answered with a success status and a body that is not empty
Delivered(resp) == Succeeded(resp) /\ ~resp.text.empty

RowsFor(gets) == [k \in DOMAIN gets |-> build_row(parse_bill(gets[k].resp.text, gets[k].url))]

Untouched(file) == file.opens = 0 /\ file \in {CsvAbsent, CsvOld}

ListingFailed == trace # <<>> /\ ~Succeeded(trace[1].resp)

\* the k-th event is a detail-page GET that produced a row
RowGet(k) == k >= 2 /\ k <= Len(trace) /\ trace[k].op = "get" /\ Delivered(trace[k].resp)

IsPause(e) == e.op = "sleep" /\ e.tenths = 8

\* C1: extract_bill_links returns at most `limit` entries, for every limit
\* from 0 on, and no absolute URL twice.
C1_AtMostLimitNoDuplicate ==
    pc = "extracted" => Len(links) <= limit /\ NoRepeat(UrlsOf(links))

\* C2 as stated: in the loop, every link so far was requested, in link
\* order, and the rows are exactly those of the bills whose fetch succeeded,
\* in link order.  Stated of the runs with limit >= 1, where the links are
\* within the limit.
C2_RowsAreSucceededFetches ==
    pc = "loop" /\ limit >= 1 =>
        /\ UrlsOf(DetailGets) = [k \in 1..(idx - 1) |-> links[k].url]
        /\ rows = RowsFor(SelectSeq(DetailGets, LAMBDA e : Succeeded(e.resp)))

\* C2 as amended: in the loop, every link so far was requested, in link
\* order, whatever the earlier fetches gave, and the rows are exactly those
\* of the bills whose fetch returned a body that is not empty, in link order.
C2_RowsAreDeliveredFetches ==
    pc = "loop" =>
        /\ UrlsOf(DetailGets) = [k \in 1..(idx - 1) |-> links[k].url]
        /\ rows = RowsFor(SelectSeq(DetailGets, LAMBDA e : Delivered(e.resp)))

C2_Witness ==
    /\ pc = "loop"
    /\ Len(DetailGets) = 3
    /\ ~Succeeded(DetailGets[1].resp)
    /\ Succeeded(DetailGets[2].resp) /\ ~Delivered(DetailGets[2].resp)
    /\ Delivered(DetailGets[3].resp)
    /\ Len(rows) = 1
    /\ rows[1].bill_url = links[3].url

\* C3: when the listing-page fetch failed, the run is over, no detail page
\* is ever requested and the output file is neither created nor rewritten.
C3_ListingFailureAborts ==
    ListingFailed => pc = "done" /\ Len(trace) = 1 /\ rows = <<>> /\ Untouched(csv)

C3_Witness ==
    /\ pc = "done"
    /\ ListingFailed
    /\ trace[1].resp.kind = "response"
    /\ \E a \in Range(trace[1].resp.text.anchors) : IsBillHref(a.href)
    /\ limit > 0
    /\ csv = CsvOld

\* C4: with no link extracted no detail page is requested; and a run that
\* comes out of the loop with no row prints the nothing-saved notice and
\* leaves the output file as it was.
C4_NothingSaved ==
    /\ (pc \in {"loop", "done"} /\ ~MainAborts(html) /\ links = <<>> => DetailGets = <<>>)
    /\ (pc = "done" /\ ~MainAborts(html) /\ rows = <<>> =>
            /\ console[Len(console)] = "nothing_saved"
            /\ Untouched(csv))

C4_Witness ==
    /\ pc = "done"
    /\ ~MainAborts(html)
    /\ html.anchors # <<>>
    /\ links = <<>>
    /\ DetailGets = <<>>
    /\ csv = CsvOld
    /\ console[Len(console)] = "nothing_saved"

\* C5 as stated: every detail-page GET is immediately preceded by the
\* 0.8-second pause.  Stated of the runs with limit >= 1, where the links
\* are within the limit.
C5_EveryFetchAfterPause ==
    limit >= 1 => \A k \in 2..Len(trace) : trace[k].op = "get" => IsPause(trace[k - 1])

\* C5 as amended: the 0.8-second pause directly follows every detail-page
\* GET that produced a row and nothing else, so a detail-page GET is
\* immediately preceded by the pause exactly when the GET before it
\* produced a row.
C5_PauseFollowsEachRow ==
    /\ \A k \in 2..Len(trace) : RowGet(k) => k < Len(trace) /\ IsPause(trace[k + 1])
    /\ \A k \in 1..Len(trace) : trace[k].op = "sleep" => IsPause(trace[k]) /\ RowGet(k - 1)
    /\ \A k \in 2..Len(trace) :
          trace[k].op = "get" => (trace[k - 1].op = "sleep" <=> RowGet(k - 2))

C5_Witness ==
    /\ Len(trace) >= 6
    /\ trace[2].op = "get" /\ ~Succeeded(trace[2].resp)
    /\ trace[3].op = "get" /\ Delivered(trace[3].resp)
    /\ IsPause(trace[4])
    /\ trace[5].op = "get"

\* the body text's sectors, keywords and penalty stems, read off the text
SectorsIn(text) ==
    { s \in Range(SectorOrder) :
        \E i \in DOMAIN SECTOR_KEYWORDS[s] : Contains(Lower(text), SECTOR_KEYWORDS[s][i]) }

HasPenaltyStem(text) == \E st \in PenaltyStems : Contains(Lower(text), st)

MatchedKeywordTotal(c) ==
    Cardinality({ <<s, kw>> \in Range(c.matched) \X UNION {c.keywords_map[t] : t \in DOMAIN c.keywords_map} :
                    kw \in c.keywords_map[s] })

UnclampedScore(c, text) ==
    2 * Len(c.matched) + MatchedKeywordTotal(c) + (IF HasPenaltyStem(text) THEN 3 ELSE 0)

\* C6: compute_risk_score is an integer of 0..10, and so is the row's
\* risk_score.
C6_RiskInRange ==
    pc = "built" => cls.risk \in 0..10 /\ row.risk_score = cls.risk

C6_Witness ==
    /\ pc = "built"
    /\ UnclampedScore(cls, parsed.full_text) > 10
    /\ row.risk_score = 10

\* C7: compute_risk_score is min(10, 2 * matched sectors + matched keywords
\* over the matched sectors + B), B = 3 when the text holds a penalty stem
\* in any case and 0 otherwise.
C7_RiskFormula ==
    pc = "built" =>
        /\ cls.risk = Min(10, UnclampedScore(cls, parsed.full_text))
        /\ row.risk_score = cls.risk

C7_Witness ==
    /\ pc = "built"
    /\ HasPenaltyStem(parsed.full_text)
    /\ ~Contains(parsed.full_text, <<"sh","t","r","a","f">>)
    /\ Contains(parsed.full_text, <<"SH","T","R","A","F","Y">>)
    /\ cls.risk = 6

\* C8: the file written holds the header and at most 500 rows, the first
\* rows collected, in the order they were collected.
C8_FileHoldsFirst500 ==
    pc = "done" /\ csv.opens > 0 =>
        /\ csv.header = Fieldnames
        /\ Len(csv.data) <= 500
        /\ csv.data = Take(RowsFor(SelectSeq(DetailGets, LAMBDA e : Delivered(e.resp))), 500)

C8_Witness ==
    /\ pc = "done"
    /\ Len(SelectSeq(DetailGets, LAMBDA e : Delivered(e.resp))) > 500
    /\ Len(csv.data) = 500
    /\ csv.data[500].bill_url = DetailGets[500].url

\* C9: matched holds exactly the sectors with a keyword in the lower-cased
\* text, in table order; sector_main is the label of the first of them, and
\* the Other label exactly when there is none.
C9_MatchedAndSectorMain ==
    pc = "built" =>
        /\ cls.matched = SelectSeq(SectorOrder, LAMBDA s : s \in SectorsIn(parsed.full_text))
        /\ row.sector_main # ""
        /\ (cls.matched # <<>> => row.sector_main = SECTOR_LABELS[cls.matched[1]])
        /\ (row.sector_main = SECTOR_LABELS["other"] <=> cls.matched = <<>>)

C9_Witness ==
    /\ pc = "built"
    /\ cls.matched = <<"social", "corporate">>
    /\ row.sector_main = "Sotsialnyj"

\* C10: the detail-page requests of a run never number more than `limit`,
\* and no detail URL is requested twice.
C10_RequestsWithinLimit ==
    Len(DetailGets) <= limit /\ NoRepeat(UrlsOf(DetailGets))

====
